---- MODULE Spec2Model ----
(***************************************************************************)
(* solve_mission (src/main.py): a layered flow network is built from the   *)
(* characters, the planets, the resource targets and the current           *)
(* assignments; nx.max_flow_min_cost solves it; the flow is turned into    *)
(* per-character work orders.                                              *)
(*                                                                         *)
(* A Python string is modelled by the tuple of its "|"-separated parts:    *)
(* "l1" is <<"l1">> and f"{p_id}|{res}" is <<p_id, res>>, so that          *)
(* '"|" in neighbor' is Len(neighbor) > 1 and neighbor.split("|")[1] is    *)
(* neighbor[2].  A dict is modelled by the sequence of its items where the *)
(* code iterates it, and by a function where the code only looks keys up.  *)
(***************************************************************************)
EXTENDS Integers, Sequences, FiniteSets, TLC

VARIABLES characters, resource_targets, planet_data, current_assignments,
          switching_cost, pc, G, maxFlow, flow_dict, total_abundance,
          work_orders, outcome

inputs == <<characters, resource_targets, planet_data, current_assignments,
            switching_cost>>
vars == <<characters, resource_targets, planet_data, current_assignments,
          switching_cost, pc, G, maxFlow, flow_dict, total_abundance,
          work_orders, outcome>>

\* ------------------------------------------------------------------------
\* Bounds of the input space
MaxVisits == 2
MaxTarget == 2

AgentIds == <<"a1", "a2">>
LocIds == <<"l1", "l2">>
ResNames == {"Iron", "Gold"}
SwitchingCosts == {0, 2, 40}

\* ------------------------------------------------------------------------
\* Generic helpers
Range(s) == {s[i] : i \in DOMAIN s}

Min(a, b) == IF a < b THEN a ELSE b

\* sum of f[x] over x in S
RECURSIVE SumOver(_, _)
SumOver(S, f) ==
    IF S = {} THEN 0
    ELSE LET x == CHOOSE y \in S : TRUE
         IN f[x] + SumOver(S \ {x}, f)

RECURSIVE SumSeq(_)
SumSeq(s) == IF s = <<>> THEN 0 ELSE Head(s) + SumSeq(Tail(s))

\* list.remove(x): drops the first occurrence of x
RECURSIVE RemoveFirst(_, _)
RemoveFirst(s, x) ==
    IF s = <<>> THEN <<>>
    ELSE IF Head(s) = x THEN Tail(s)
    ELSE <<Head(s)>> \o RemoveFirst(Tail(s), x)

\* ------------------------------------------------------------------------
\* Node names
source == <<"Source">>
sink == <<"Sink">>
NodeOf(name) == <<name>>
pr_node(p_id, res) == <<p_id, res>>

\* dict views of the ordered inputs
TargetKeys(targets) == {targets[i].res : i \in DOMAIN targets}
TargetOf(targets, res) ==
    LET i == CHOOSE j \in DOMAIN targets :
                 /\ targets[j].res = res
                 /\ \A k \in DOMAIN targets : targets[k].res = res => k <= j
    IN targets[i].target
ResourceKeys(planet) == {planet.resources[i].res : i \in DOMAIN planet.resources}
AbundanceOf(planet, res) ==
    LET i == CHOOSE j \in DOMAIN planet.resources : planet.resources[j].res = res
    IN planet.resources[i].abundance

\* current_assignments.get(c_id, {}): the character's planet -> resource map
CurrentOf(assigns, c_id) ==
    IF c_id \in DOMAIN assigns THEN assigns[c_id] ELSE <<>>

\* ------------------------------------------------------------------------
\* nx.DiGraph.  The construction is the sequence of its add_node and
\* add_edge calls; the graph keeps nodes and edges in the order of their
\* first insertion, and an edge inserted again takes the later attributes.
NodeCall(n) == [op |-> "add_node", u |-> n, v |-> n, capacity |-> 0, weight |-> 0]
EdgeCall(u, v, cap, w) == [op |-> "add_edge", u |-> u, v |-> v, capacity |-> cap, weight |-> w]

RECURSIVE Concat(_)
Concat(ss) == IF ss = <<>> THEN <<>> ELSE Head(ss) \o Concat(Tail(ss))

\* the elements of s in the order of their first occurrence
FirstOccurrences(s) ==
    LET first(i) == \A j \in 1..(i - 1) : s[j] # s[i]
        idx == SelectSeq([i \in 1..Len(s) |-> i], first)
    IN [k \in 1..Len(idx) |-> s[idx[k]]]

\* the graph left by a sequence of add_node / add_edge calls
GraphOf(calls) ==
    LET touched == Concat([i \in 1..Len(calls) |->
                      IF calls[i].op = "add_node" THEN <<calls[i].u>>
                      ELSE <<calls[i].u, calls[i].v>>])
        is_edge(c) == c.op = "add_edge"
        ecalls == SelectSeq(calls, is_edge)
        edges == FirstOccurrences([i \in 1..Len(ecalls) |-> <<ecalls[i].u, ecalls[i].v>>])
        last(e) == CHOOSE i \in 1..Len(ecalls) :
                      /\ <<ecalls[i].u, ecalls[i].v>> = e
                      /\ \A j \in (i + 1)..Len(ecalls) : <<ecalls[j].u, ecalls[j].v>> # e
    IN [nodes |-> FirstOccurrences(touched),
        edges |-> edges,
        capacity |-> [e \in Range(edges) |-> ecalls[last(e)].capacity],
        weight |-> [e \in Range(edges) |-> ecalls[last(e)].weight]]

EmptyGraph == GraphOf(<<>>)
EdgeSet(g) == Range(g.edges)
NodeSet(g) == Range(g.nodes)

\* mutant: the banned planets are not skipped
PlanetEdgeCallsNoBan(char, planet, assigns, sw) ==
    LET p_id == planet.id
        is_existing == p_id \in DOMAIN CurrentOf(assigns, char.id)
        edge_weight == IF is_existing THEN 0 ELSE sw
    IN <<NodeCall(NodeOf(p_id)),
         EdgeCall(NodeOf(char.id), NodeOf(p_id), 1, edge_weight)>>

\* mutant: the cost is charged for the planets the character already has
PlanetEdgeCallsCostSwapped(char, planet, assigns, sw) ==
    LET p_id == planet.id
        is_existing == p_id \in DOMAIN CurrentOf(assigns, char.id)
        edge_weight == IF is_existing THEN sw ELSE 0
    IN <<NodeCall(NodeOf(p_id))>>
       \o (IF p_id \in char.banned THEN <<>>
           ELSE <<EdgeCall(NodeOf(char.id), NodeOf(p_id), 1, edge_weight)>>)

\* Layer 2: one character -> one planet (lines 28-53)
PlanetEdgeCalls(char, planet, assigns, sw) ==
    LET p_id == planet.id
        is_existing == p_id \in DOMAIN CurrentOf(assigns, char.id)
        edge_weight == IF is_existing THEN 0 ELSE sw
    IN <<NodeCall(NodeOf(p_id))>>
       \o (IF p_id \in char.banned THEN <<>>
           ELSE <<EdgeCall(NodeOf(char.id), NodeOf(p_id), 1, edge_weight)>>)

\* mutant: the Source -> character edge lets one visit more through
CharacterCallsOneMore(char, planets, assigns, sw) ==
    <<NodeCall(NodeOf(char.id)),
      EdgeCall(source, NodeOf(char.id), char.max_visits + 1, 0)>>
    \o Concat([j \in 1..Len(planets) |-> PlanetEdgeCalls(char, planets[j], assigns, sw)])

\* Layer 1: Source -> one character, then its planets (lines 18-53)
CharacterCalls(char, planets, assigns, sw) ==
    <<NodeCall(NodeOf(char.id)),
      EdgeCall(source, NodeOf(char.id), char.max_visits, 0)>>
    \o Concat([j \in 1..Len(planets) |-> PlanetEdgeCalls(char, planets[j], assigns, sw)])

\* mutant: the Planet -> Planet|Res edge costs +abundance
ResourceCallsPositiveWeight(planet, targets, nchars) ==
    Concat([k \in 1..Len(planet.resources) |->
        LET res == planet.resources[k].res
            abundance == planet.resources[k].abundance
            prn == pr_node(planet.id, res)
        IN IF res \in TargetKeys(targets)
           THEN <<NodeCall(prn),
                  EdgeCall(NodeOf(planet.id), prn, nchars, abundance),
                  NodeCall(NodeOf(res)),
                  EdgeCall(prn, NodeOf(res), nchars, 0)>>
           ELSE <<>>])

\* mutant: the resources without a target get their nodes and edges too
ResourceCallsUnfiltered(planet, targets, nchars) ==
    Concat([k \in 1..Len(planet.resources) |->
        LET res == planet.resources[k].res
            abundance == planet.resources[k].abundance
            prn == pr_node(planet.id, res)
        IN <<NodeCall(prn),
             EdgeCall(NodeOf(planet.id), prn, nchars, 0 - abundance),
             NodeCall(NodeOf(res)),
             EdgeCall(prn, NodeOf(res), nchars, 0)>>])

\* Layers 3 and 4 of one planet (lines 59-73)
ResourceCalls(planet, targets, nchars) ==
    Concat([k \in 1..Len(planet.resources) |->
        LET res == planet.resources[k].res
            abundance == planet.resources[k].abundance
            prn == pr_node(planet.id, res)
        IN IF res \in TargetKeys(targets)
           THEN <<NodeCall(prn),
                  EdgeCall(NodeOf(planet.id), prn, nchars, 0 - abundance),
                  NodeCall(NodeOf(res)),
                  EdgeCall(prn, NodeOf(res), nchars, 0)>>
           ELSE <<>>])

\* mutant: the Resource -> Sink edge lets one unit more through
TargetCallsOneMore(targets) ==
    Concat([k \in 1..Len(targets) |->
        <<NodeCall(NodeOf(targets[k].res)),
          EdgeCall(NodeOf(targets[k].res), sink, targets[k].target + 1, 0)>>])

\* Layer 5: resource -> Sink (lines 76-80)
TargetCalls(targets) ==
    Concat([k \in 1..Len(targets) |->
        <<NodeCall(NodeOf(targets[k].res)),
          EdgeCall(NodeOf(targets[k].res), sink, targets[k].target, 0)>>])

\* Graph construction (lines 8-80)
BuildGraph(chars, targets, planets, assigns, sw) ==
    GraphOf(<<NodeCall(source), NodeCall(sink)>>
            \o Concat([i \in 1..Len(chars) |->
                          CharacterCalls(chars[i], planets, assigns, sw)])
            \o Concat([j \in 1..Len(planets) |->
                          ResourceCalls(planets[j], targets, Len(chars))])
            \o TargetCalls(targets))

\* ------------------------------------------------------------------------
\* nx.max_flow_min_cost(G, source, sink) (line 84).  The library first
\* computes the value of a maximum flow over the edges of positive capacity
\* (nx.maximum_flow_value), then a minimum cost flow that ships that value
\* from source to sink (nx.min_cost_flow, network simplex).

ZeroFlow(g) == [e \in EdgeSet(g) |-> 0]

\* mutant: the residual capacity of a forward edge is one too large
ResidualCapacityOffByOne(g, f, u, v) ==
    IF <<u, v>> \in EdgeSet(g) THEN g.capacity[<<u, v>>] - f[<<u, v>>] + 1
    ELSE IF <<v, u>> \in EdgeSet(g) THEN f[<<v, u>>]
    ELSE 0

\* residual capacity of the arc u -> v: capacity - flow on a forward edge,
\* flow on the reverse of an edge
ResidualCapacity(g, f, u, v) ==
    IF <<u, v>> \in EdgeSet(g) THEN g.capacity[<<u, v>>] - f[<<u, v>>]
    ELSE IF <<v, u>> \in EdgeSet(g) THEN f[<<v, u>>]
    ELSE 0

ResidualCost(g, u, v) ==
    IF <<u, v>> \in EdgeSet(g) THEN g.weight[<<u, v>>]
    ELSE 0 - g.weight[<<v, u>>]

\* nodes reachable from u by one residual arc
Successors(g, f, u) ==
    {e[2] : e \in {d \in EdgeSet(g) : d[1] = u /\ g.capacity[d] - f[d] > 0}}
    \cup {e[1] : e \in {d \in EdgeSet(g) : d[2] = u /\ f[d] > 0}}

\* mutant: the search never goes back along an edge that carries flow
SuccessorSeqForwardOnly(g, f, u) ==
    LET fwd(e) == e[1] = u /\ g.capacity[e] - f[e] > 0
        F == SelectSeq(g.edges, fwd)
    IN [i \in 1..Len(F) |-> F[i][2]]

\* the same, forward edges first, in edge insertion order
SuccessorSeq(g, f, u) ==
    LET fwd(e) == e[1] = u /\ g.capacity[e] - f[e] > 0
        bwd(e) == e[2] = u /\ f[e] > 0
        F == SelectSeq(g.edges, fwd)
        B == SelectSeq(g.edges, bwd)
    IN [i \in 1..Len(F) |-> F[i][2]] \o [i \in 1..Len(B) |-> B[i][1]]

\* depth-first search for an augmenting path from u to sink that avoids the
\* nodes of `visited'; <<>> when there is none
RECURSIVE FindPath(_, _, _, _)
RECURSIVE FindPathVia(_, _, _, _)
FindPath(g, f, u, visited) ==
    IF u = sink THEN <<sink>>
    ELSE LET rest == FindPathVia(g, f, SuccessorSeq(g, f, u), visited \cup {u})
         IN IF rest = <<>> THEN <<>> ELSE <<u>> \o rest
FindPathVia(g, f, succs, visited) ==
    IF succs = <<>> THEN <<>>
    ELSE IF Head(succs) \in visited THEN FindPathVia(g, f, Tail(succs), visited)
    ELSE LET p == FindPath(g, f, Head(succs), visited)
         IN IF p # <<>> THEN p ELSE FindPathVia(g, f, Tail(succs), visited)

AugmentingPath(g, f) == FindPath(g, f, source, {})

\* arcs of a path (closed: of a cycle) given by its node sequence
PathArcs(p) == {<<p[i], p[i + 1]>> : i \in 1..(Len(p) - 1)}
CycleArcs(c) == PathArcs(c) \cup {<<c[Len(c)], c[1]>>}

Bottleneck(g, f, arcs) ==
    LET caps == {ResidualCapacity(g, f, a[1], a[2]) : a \in arcs}
    IN CHOOSE m \in caps : \A c \in caps : m <= c

ArcsCost(g, arcs) ==
    SumOver(arcs, [a \in arcs |-> ResidualCost(g, a[1], a[2])])

\* mutant: the flow of an edge taken backwards is not decreased
PushForwardOnly(g, f, arcs, d) ==
    [e \in EdgeSet(g) |-> IF e \in arcs THEN f[e] + d ELSE f[e]]

\* push d units along the arcs: forward edges increase, reverse edges decrease
Push(g, f, arcs, d) ==
    [e \in EdgeSet(g) |->
        IF e \in arcs THEN f[e] + d
        ELSE IF <<e[2], e[1]>> \in arcs THEN f[e] - d
        ELSE f[e]]

FlowValue(g, f) ==
    LET out == {e \in EdgeSet(g) : e[1] = source}
    IN SumOver(out, [e \in out |-> f[e]])

FlowCost(g, f) ==
    SumOver(EdgeSet(g), [e \in EdgeSet(g) |-> g.weight[e] * f[e]])

NodeIndex(g, n) == CHOOSE i \in DOMAIN g.nodes : g.nodes[i] = n

\* simple residual cycles of at least three arcs through `start' whose other
\* nodes come later than `start' in node order, as node sequences
RECURSIVE CyclesFrom(_, _, _, _)
CyclesFrom(g, f, start, path) ==
    LET nexts == Successors(g, f, path[Len(path)])
        ext == {v \in nexts : /\ v \notin Range(path)
                               /\ NodeIndex(g, v) > NodeIndex(g, start)}
    IN (IF start \in nexts /\ Len(path) >= 3 THEN {path} ELSE {})
       \cup UNION {CyclesFrom(g, f, start, Append(path, v)) : v \in ext}

ResidualCycles(g, f) == UNION {CyclesFrom(g, f, s, <<s>>) : s \in NodeSet(g)}

\* mutant: the solver stops at the first flow of maximum value
NegativeCyclesIgnored(g, f) == {}

NegativeCycles(g, f) == {c \in ResidualCycles(g, f) : ArcsCost(g, CycleArcs(c)) < 0}

\* mutant: a demand that the visits cannot meet is rejected as well
UnfeasibleUnmetDemand(g) ==
    LET into == {e \in EdgeSet(g) : e[2] = sink}
        from == {e \in EdgeSet(g) : e[1] = source}
    IN \/ \E e \in EdgeSet(g) : g.capacity[e] < 0
       \/ SumOver(into, [e \in into |-> g.capacity[e]])
             > SumOver(from, [e \in from |-> g.capacity[e]])

\* network simplex rejects a network with an edge of negative capacity
Unfeasible(g) == \E e \in EdgeSet(g) : g.capacity[e] < 0

\* ------------------------------------------------------------------------
\* Post-processing (lines 89-178)
None == "None"

\* A. characters with positive flow into the planet, in character order
\*    (lines 100-106)
RECURSIVE Visitors(_, _, _, _, _)
Visitors(g, f, chars, p_id, i) ==
    IF i > Len(chars) THEN <<>>
    ELSE LET e == <<NodeOf(chars[i].id), NodeOf(p_id)>>
             here == e \in EdgeSet(g) /\ f[e] > 0
         IN (IF here THEN <<chars[i].id>> ELSE <<>>)
            \o Visitors(g, f, chars, p_id, i + 1)

\* flow_dict[p_id].items(): the out-edges of the planet node, in insertion order
PlanetOutEdges(g, p_id) ==
    LET from_p(e) == e[1] = NodeOf(p_id) IN SelectSeq(g.edges, from_p)

Repeat(x, n) == [i \in 1..n |-> x]

\* mutant: a resource is listed once, whatever its flow
RECURSIVE ItemsToCollectOnce(_, _, _)
ItemsToCollectOnce(f, out, k) ==
    IF k > Len(out) THEN <<>>
    ELSE LET neighbor == out[k][2]
             flow_amt == f[out[k]]
         IN (IF flow_amt > 0 /\ Len(neighbor) > 1
             THEN <<neighbor[2]>> ELSE <<>>)
            \o ItemsToCollectOnce(f, out, k + 1)

\* B. resource names of the Planet|Res neighbours, one per unit of flow
\*    (lines 110-117)
RECURSIVE ItemsToCollect(_, _, _)
ItemsToCollect(f, out, k) ==
    IF k > Len(out) THEN <<>>
    ELSE LET neighbor == out[k][2]
             flow_amt == f[out[k]]
         IN (IF flow_amt > 0 /\ Len(neighbor) > 1
             THEN Repeat(neighbor[2], flow_amt) ELSE <<>>)
            \o ItemsToCollect(f, out, k + 1)

\* planet['resources'][res_name] of line 119 raises KeyError
MissingResource(g, f, planet) ==
    \E res \in Range(ItemsToCollect(f, PlanetOutEdges(g, planet.id), 1)) :
        res \notin ResourceKeys(planet)

\* total_abundance += planet['resources'][res_name] for every unit (line 119)
RECURSIVE SumAbundance(_, _)
SumAbundance(planet, items) ==
    IF items = <<>> THEN 0
    ELSE AbundanceOf(planet, Head(items)) + SumAbundance(planet, Tail(items))

\* mutant: the matched item stays in the list of unassigned items
RECURSIVE GreedyMatchKeepsItem(_, _, _, _)
GreedyMatchKeepsItem(assigns, p_id, todo, st) ==
    IF todo = <<>> THEN st
    ELSE LET visitor == Head(todo)
             curr_assigns == CurrentOf(assigns, visitor)
             preferred_res == IF p_id \in DOMAIN curr_assigns
                              THEN curr_assigns[p_id] ELSE None
             hit == preferred_res # None /\ preferred_res \in Range(st.items)
             st2 == IF hit
                    THEN [assignments |-> (visitor :> preferred_res) @@ st.assignments,
                          visitors |-> RemoveFirst(st.visitors, visitor),
                          items |-> st.items]
                    ELSE st
         IN GreedyMatchKeepsItem(assigns, p_id, Tail(todo), st2)

\* mutant: no visitor is matched with its existing resource
GreedyMatchOmitted(assigns, p_id, todo, st) == st

\* C.1 Greedy match (lines 129-138); st = [assignments, visitors, items]
RECURSIVE GreedyMatch(_, _, _, _)
GreedyMatch(assigns, p_id, todo, st) ==
    IF todo = <<>> THEN st
    ELSE LET visitor == Head(todo)
             curr_assigns == CurrentOf(assigns, visitor)
             preferred_res == IF p_id \in DOMAIN curr_assigns
                              THEN curr_assigns[p_id] ELSE None
             hit == preferred_res # None /\ preferred_res \in Range(st.items)
             st2 == IF hit
                    THEN [assignments |-> (visitor :> preferred_res) @@ st.assignments,
                          visitors |-> RemoveFirst(st.visitors, visitor),
                          items |-> RemoveFirst(st.items, preferred_res)]
                    ELSE st
         IN GreedyMatch(assigns, p_id, Tail(todo), st2)

\* C.2 Fill remaining (lines 141-146)
RECURSIVE FillRemaining(_, _)
FillRemaining(todo, st) ==
    IF todo = <<>> THEN st
    ELSE LET visitor == Head(todo)
             st2 == IF st.items # <<>>
                    THEN [st EXCEPT !.assignments = (visitor :> Head(st.items)) @@ @,
                                    !.items = Tail(@)]
                    ELSE [st EXCEPT !.assignments = (visitor :> None) @@ @]
         IN FillRemaining(Tail(todo), st2)

\* mutant: a planet the character did not have is always tagged as new
StatusTagNoHistory(assigns, visitor, p_id, item) ==
    LET curr_assigns == CurrentOf(assigns, visitor)
        is_new_planet == p_id \notin DOMAIN curr_assigns
        is_head_switch == ~is_new_planet /\ curr_assigns[p_id] # item
    IN IF is_new_planet THEN "NEW PLANET"
       ELSE IF is_head_switch THEN "HEAD SWITCH" ELSE ""

\* Status checks of one order (lines 155-172)
StatusTag(assigns, visitor, p_id, item) ==
    LET curr_assigns == CurrentOf(assigns, visitor)
        has_history == DOMAIN curr_assigns # {}
        is_new_planet == p_id \notin DOMAIN curr_assigns
        is_head_switch == ~is_new_planet /\ curr_assigns[p_id] # item
    IN IF is_new_planet
       THEN (IF ~has_history THEN "NEW PLANET" ELSE "PLANET SWITCH")
       ELSE IF is_head_switch THEN "HEAD SWITCH" ELSE ""

\* C.3 Generate orders (lines 149-176)
RECURSIVE GenerateOrders(_, _, _, _, _)
GenerateOrders(assigns, planet, assignments, todo, orders) ==
    IF todo = <<>> THEN orders
    ELSE LET visitor == Head(todo)
             item == assignments[visitor]
             msg == IF item # None
                    THEN [planet |-> planet.id, item |-> item,
                          yield |-> AbundanceOf(planet, item),
                          tag |-> StatusTag(assigns, visitor, planet.id, item)]
                    ELSE [planet |-> planet.id, item |-> "No Collection",
                          yield |-> 0, tag |-> ""]
         IN GenerateOrders(assigns, planet, assignments, Tail(todo),
                           [orders EXCEPT ![visitor] = Append(@, msg)])

\* the loop over the planets (lines 95-176); acc = [total, orders]
RECURSIVE ProcessPlanets(_, _, _, _, _, _, _)
ProcessPlanets(g, f, chars, planets, assigns, j, acc) ==
    IF j > Len(planets) THEN acc
    ELSE LET planet == planets[j]
             visitors == Visitors(g, f, chars, planet.id, 1)
             items_to_collect == ItemsToCollect(f, PlanetOutEdges(g, planet.id), 1)
             st0 == [assignments |-> <<>>, visitors |-> visitors,
                     items |-> items_to_collect]
             st1 == GreedyMatch(assigns, planet.id, visitors, st0)
             st2 == FillRemaining(st1.visitors, st1)
         IN ProcessPlanets(g, f, chars, planets, assigns, j + 1,
                [total |-> acc.total + SumAbundance(planet, items_to_collect),
                 orders |-> GenerateOrders(assigns, planet, st2.assignments,
                                           visitors, acc.orders)])

EmptyOrders(chars) == [c \in {chars[i].id : i \in DOMAIN chars} |-> <<>>]

GenerateWorkOrders(g, f, chars, planets, assigns) ==
    ProcessPlanets(g, f, chars, planets, assigns, 1,
                   [total |-> 0, orders |-> EmptyOrders(chars)])

\* ------------------------------------------------------------------------
\* Inputs
\* in a list of n characters the last one may be banned from the first
\* planet, and only the last one may have no visit at all; a visit limit is
\* 1 or the largest one
BannedChoices(n, i) == IF i = n THEN {{}, {"l1"}} ELSE {{}}
VisitChoices(n, i) == IF i = n THEN {0, 1, MaxVisits} ELSE {1, MaxVisits}

CharacterLists ==
    UNION {{[i \in 1..n |-> [id |-> AgentIds[i], max_visits |-> v[i], banned |-> b[i]]] :
               v \in {w \in [1..n -> 0..MaxVisits] :
                         \A i \in 1..n : w[i] \in VisitChoices(n, i)},
               b \in {c \in [1..n -> SUBSET {"l1"}] :
                         \A i \in 1..n : c[i] \in BannedChoices(n, i)}} :
           n \in 1..Len(AgentIds)}

Iron(a) == [res |-> "Iron", abundance |-> a]
Gold(a) == [res |-> "Gold", abundance |-> a]

PlanetLists ==
    LET first == {<<Iron(3)>>, <<Iron(3), Gold(1)>>}
        second == {<<Iron(1)>>, <<Gold(3), Iron(2)>>}
    IN {<<[id |-> "l1", resources |-> r]>> : r \in first}
       \cup {<<[id |-> "l1", resources |-> r1], [id |-> "l2", resources |-> r2]>> :
                r1 \in first, r2 \in second}

TargetLists ==
    {<<[res |-> "Iron", target |-> t]>> : t \in 0..MaxTarget}
    \cup {<<[res |-> "Iron", target |-> t], [res |-> "Gold", target |-> u]>> :
             t \in 0..MaxTarget, u \in {1}}

\* what a character may have collected before, at the first planet
PriorMaps == {[p \in {"l1"} |-> r] : r \in ResNames}

\* the first character may have collected any resource, the others Iron
PriorChoices(i) == IF i = 1 THEN PriorMaps ELSE {[p \in {"l1"} |-> "Iron"]}

AssignmentMaps(chars) ==
    UNION {{m \in [D -> PriorMaps] :
               \A i \in DOMAIN chars :
                   chars[i].id \in D => m[chars[i].id] \in PriorChoices(i)} :
           D \in SUBSET {chars[i].id : i \in DOMAIN chars}}

PlanetIds(planets) == {planets[j].id : j \in DOMAIN planets}
CharacterIds(chars) == {chars[i].id : i \in DOMAIN chars}

\* the inputs of the data model: distinct identities, non-negative
\* quantities, current assignments that name known characters and planets
ValidInput(chars, targets, planets, assigns, sw) ==
    /\ \A i, j \in DOMAIN chars : chars[i].id = chars[j].id => i = j
    /\ \A i, j \in DOMAIN planets : planets[i].id = planets[j].id => i = j
    /\ \A i \in DOMAIN chars : chars[i].max_visits >= 0
    /\ \A k \in DOMAIN targets : targets[k].target >= 0
    /\ \A j \in DOMAIN planets : \A k \in DOMAIN planets[j].resources :
           planets[j].resources[k].abundance >= 0
    /\ DOMAIN assigns \subseteq CharacterIds(chars)
    /\ \A c \in DOMAIN assigns : DOMAIN assigns[c] \subseteq PlanetIds(planets)
    /\ sw >= 0

Start ==
    /\ pc = "build"
    /\ G = EmptyGraph
    /\ maxFlow = 0
    /\ flow_dict = <<>>
    /\ total_abundance = 0
    /\ work_orders = <<>>
    /\ outcome = "running"

Init ==
    /\ characters \in CharacterLists
    /\ planet_data \in PlanetLists
    /\ resource_targets \in TargetLists
    /\ current_assignments \in AssignmentMaps(characters)
    /\ switching_cost \in SwitchingCosts
    /\ ValidInput(characters, resource_targets, planet_data, current_assignments,
                  switching_cost)
    /\ Start

\* ------------------------------------------------------------------------
\* Steps of solve_mission

\* lines 8-80
Build ==
    /\ pc = "build"
    /\ G' = BuildGraph(characters, resource_targets, planet_data,
                       current_assignments, switching_cost)
    /\ flow_dict' = ZeroFlow(G')
    /\ pc' = "max_flow"
    /\ UNCHANGED <<inputs, maxFlow, total_abundance, work_orders, outcome>>

\* line 84, nx.maximum_flow_value: one augmentation
Augment ==
    /\ pc = "max_flow"
    /\ LET p == AugmentingPath(G, flow_dict)
       IN /\ p # <<>>
          /\ flow_dict' = Push(G, flow_dict, PathArcs(p),
                               Bottleneck(G, flow_dict, PathArcs(p)))
    /\ UNCHANGED <<inputs, pc, G, maxFlow, total_abundance, work_orders, outcome>>

\* line 84: the maximum flow value is known and handed to nx.min_cost_flow;
\* lines 85-87: NetworkXUnfeasible is caught and the error result returned
MaxFlowValue ==
    /\ pc = "max_flow"
    /\ AugmentingPath(G, flow_dict) = <<>>
    /\ maxFlow' = FlowValue(G, flow_dict)
    /\ IF Unfeasible(G)
       THEN /\ pc' = "done"
            /\ outcome' = "unfeasible"
            /\ flow_dict' = <<>>
            /\ total_abundance' = 0
            /\ work_orders' = <<>>
       ELSE /\ pc' = "min_cost"
            /\ UNCHANGED <<flow_dict, total_abundance, work_orders, outcome>>
    /\ UNCHANGED <<inputs, G>>

\* line 84, nx.min_cost_flow: one pivot moves flow around a residual cycle
\* that does not raise the cost
Pivot ==
    /\ pc = "min_cost"
    /\ \E c \in ResidualCycles(G, flow_dict) :
         /\ ArcsCost(G, CycleArcs(c)) <= 0
         /\ \E d \in 1..Bottleneck(G, flow_dict, CycleArcs(c)) :
               flow_dict' = Push(G, flow_dict, CycleArcs(c), d)
    /\ UNCHANGED <<inputs, pc, G, maxFlow, total_abundance, work_orders, outcome>>

\* line 84: no cycle lowers the cost; flow_dict is returned
Solved ==
    /\ pc = "min_cost"
    /\ NegativeCycles(G, flow_dict) = {}
    /\ pc' = "extract"
    /\ UNCHANGED <<inputs, G, maxFlow, flow_dict, total_abundance, work_orders, outcome>>

\* lines 89-178
Extract ==
    /\ pc = "extract"
    /\ pc' = "done"
    /\ IF \E j \in DOMAIN planet_data : MissingResource(G, flow_dict, planet_data[j])
       THEN /\ outcome' = "KeyError"
            /\ UNCHANGED <<total_abundance, work_orders>>
       ELSE LET r == GenerateWorkOrders(G, flow_dict, characters, planet_data,
                                        current_assignments)
            IN /\ total_abundance' = r.total
               /\ work_orders' = r.orders
               /\ outcome' = "ok"
    /\ UNCHANGED <<inputs, G, maxFlow, flow_dict>>

Next == Build \/ Augment \/ MaxFlowValue \/ Pivot \/ Solved \/ Extract

Spec == Init /\ [][Next]_vars

\* ------------------------------------------------------------------------
\* Properties of the solved network

\* the solve step has returned its flow
FlowReturned == pc \in {"extract", "done"} /\ outcome # "unfeasible"
\* solve_mission has returned a result
Returned == pc = "done" /\ outcome = "ok"

InFlow(g, f, n) ==
    LET in == {e \in EdgeSet(g) : e[2] = n} IN SumOver(in, [e \in in |-> f[e]])
OutFlow(g, f, n) ==
    LET out == {e \in EdgeSet(g) : e[1] = n} IN SumOver(out, [e \in out |-> f[e]])

\* nodes reachable from the nodes of S in the residual graph: over a forward
\* edge with capacity - flow > 0, against an edge with flow > 0
RECURSIVE ResidualReach(_, _, _)
ResidualReach(g, f, S) ==
    LET step == {e[2] : e \in {d \in EdgeSet(g) :
                                  d[1] \in S /\ g.capacity[d] - f[d] > 0}}
                \cup {e[1] : e \in {d \in EdgeSet(g) : d[2] \in S /\ f[d] > 0}}
    IN IF step \subseteq S THEN S ELSE ResidualReach(g, f, S \cup step)

\* C1: the returned flow is a maximum flow: the final residual graph has no
\* path from Source to Sink, whatever the cost of the last units
C1_MaxFlow ==
    FlowReturned => sink \notin ResidualReach(G, flow_dict, {source})

\* a flow was returned whose units cost more in switching than they yield
C1_Witness ==
    /\ FlowReturned
    /\ FlowValue(G, flow_dict) > 0
    /\ FlowCost(G, flow_dict) > 0
    /\ sink \notin ResidualReach(G, flow_dict, {source})

\* C3: flow conservation at every node other than Source and Sink, and the
\* flow out of Source equals the flow into Sink
C3_Conservation ==
    FlowReturned =>
        /\ \A n \in NodeSet(G) \ {source, sink} :
              InFlow(G, flow_dict, n) = OutFlow(G, flow_dict, n)
        /\ OutFlow(G, flow_dict, source) = InFlow(G, flow_dict, sink)

\* two characters send flow into one planet and two resources leave it
C3_Witness ==
    /\ FlowReturned
    /\ \E n \in NodeSet(G) \ {source, sink} :
          /\ Cardinality({e \in EdgeSet(G) : e[2] = n /\ flow_dict[e] > 0}) = 2
          /\ Cardinality({e \in EdgeSet(G) : e[1] = n /\ flow_dict[e] > 0}) = 2
          /\ InFlow(G, flow_dict, n) = OutFlow(G, flow_dict, n)

\* C4: every edge of the solved network carries an integer flow between 0
\* and its capacity
C4_Capacity ==
    FlowReturned =>
        \A e \in EdgeSet(G) :
            /\ flow_dict[e] \in Int
            /\ 0 <= flow_dict[e]
            /\ flow_dict[e] <= G.capacity[e]

\* an edge of capacity 2 is saturated while another edge stays empty
C4_Witness ==
    /\ FlowReturned
    /\ \E e \in EdgeSet(G) : G.capacity[e] = 2 /\ flow_dict[e] = 2
    /\ \E e \in EdgeSet(G) : G.capacity[e] > 0 /\ flow_dict[e] = 0

\* ------------------------------------------------------------------------
\* Exhaustive reference: every integral flow of the layered network is fixed
\* by the set of (character, planet) visits and by the number of units taken
\* of each demanded resource at each planet; the other edges follow by
\* conservation.  The reference is computed from the inputs alone.
VisitPairs ==
    {p \in (DOMAIN characters) \X (DOMAIN planet_data) :
        planet_data[p[2]].id \notin characters[p[1]].banned}

VisitSets ==
    {x \in SUBSET VisitPairs :
        \A i \in DOMAIN characters :
            Cardinality({p \in x : p[1] = i}) <= characters[i].max_visits}

Offers ==
    {o \in (DOMAIN planet_data) \X TargetKeys(resource_targets) :
        o[2] \in ResourceKeys(planet_data[o[1]])}

Collections ==
    {y \in [Offers -> 0..Len(characters)] :
        \A r \in TargetKeys(resource_targets) :
            LET at == {o \in Offers : o[2] = r}
            IN SumOver(at, [o \in at |-> y[o]]) <= TargetOf(resource_targets, r)}

RefSwitches(x) ==
    Cardinality({p \in x : planet_data[p[2]].id \notin
                     DOMAIN CurrentOf(current_assignments, characters[p[1]].id)})

RefYield(y) ==
    SumOver(Offers, [o \in Offers |-> y[o] * AbundanceOf(planet_data[o[1]], o[2])])

VisitProfiles ==
    {[load |-> [j \in DOMAIN planet_data |-> Cardinality({p \in x : p[2] = j})],
      switches |-> RefSwitches(x)] : x \in VisitSets}

CollectionProfiles ==
    {[load |-> [j \in DOMAIN planet_data |->
                   LET at == {o \in Offers : o[1] = j}
                   IN SumOver(at, [o \in at |-> y[o]])],
      yield |-> RefYield(y)] : y \in Collections}

\* value, yield and switches of every feasible assignment: a visit set and a
\* collection that load every planet alike
RefFeasible ==
    LET vp == VisitProfiles
        cp == CollectionProfiles
    IN {[value |-> SumSeq(ab[1].load), yield |-> ab[2].yield,
         switches |-> ab[1].switches] :
           ab \in {pr \in vp \X cp : pr[1].load = pr[2].load}}

\* those of maximum value
MaxValueOnes(feasible) ==
    LET best == CHOOSE v \in {o.value : o \in feasible} :
                    \A o \in feasible : o.value <= v
    IN {o \in feasible : o.value = best}

\* (character, planet) entries of the work orders that the current
\* assignments do not contain
NewPairsUsed ==
    SumOver(DOMAIN work_orders,
        [c \in DOMAIN work_orders |->
            Cardinality({k \in DOMAIN work_orders[c] :
                work_orders[c][k].planet \notin
                    DOMAIN CurrentOf(current_assignments, c)})])

\* C2: the returned flow has the least cost among all flows of maximum
\* value; the result has the largest total abundance less switching_cost per
\* newly used (character, planet) pair
C2_MinCost ==
    pc = "done" /\ outcome = "ok" =>
        LET tops == MaxValueOnes(RefFeasible)
            cost == FlowCost(G, flow_dict)
            net == total_abundance - switching_cost * NewPairsUsed
        IN /\ \E o \in tops : FlowValue(G, flow_dict) = o.value
           /\ \A o \in tops : cost <= switching_cost * o.switches - o.yield
           /\ \A o \in tops : net >= o.yield - switching_cost * o.switches

\* the returned maximum flow is cheaper than another maximum flow, and pays
\* for a switch
C2_Witness ==
    /\ Returned
    /\ NewPairsUsed > 0
    /\ switching_cost > 0
    /\ LET tops == MaxValueOnes(RefFeasible)
           cost == FlowCost(G, flow_dict)
       IN /\ \E o \in tops : cost < switching_cost * o.switches - o.yield
          /\ \A o \in tops : cost <= switching_cost * o.switches - o.yield

\* ------------------------------------------------------------------------
\* Properties of the result
CharacterOf(c_id) ==
    characters[CHOOSE i \in DOMAIN characters : characters[i].id = c_id]
PlanetOf(p_id) ==
    planet_data[CHOOSE j \in DOMAIN planet_data : planet_data[j].id = p_id]

\* the work-order entries that carry a resource, as <<character, index>>
ResourceEntries ==
    {ck \in UNION {{c} \X DOMAIN work_orders[c] : c \in DOMAIN work_orders} :
        work_orders[ck[1]][ck[2]].item # "No Collection"}
EntryOf(ck) == work_orders[ck[1]][ck[2]]

SumTargets ==
    SumOver(DOMAIN resource_targets,
            [k \in DOMAIN resource_targets |-> resource_targets[k].target])

\* C5: the flow into a Resource node, and so the number of units of the
\* resource in the result, is at most its target; the flow of a
\* (planet, resource) pair is at most min(number of characters, target)
C5_DemandCeiling ==
    /\ FlowReturned =>
          /\ \A r \in TargetKeys(resource_targets) :
                InFlow(G, flow_dict, NodeOf(r)) <= TargetOf(resource_targets, r)
          /\ \A o \in Offers :
                flow_dict[<<NodeOf(planet_data[o[1]].id),
                            pr_node(planet_data[o[1]].id, o[2])>>]
                    <= Min(Len(characters), TargetOf(resource_targets, o[2]))
    /\ Returned =>
          \A r \in TargetKeys(resource_targets) :
              Cardinality({ck \in ResourceEntries : EntryOf(ck).item = r})
                  <= TargetOf(resource_targets, r)

\* the target of a resource is used up while a character with a visit left
\* could still go to a planet that offers the resource
C5_Witness ==
    /\ Returned
    /\ \E r \in TargetKeys(resource_targets) :
          /\ TargetOf(resource_targets, r) >= 1
          /\ Cardinality({ck \in ResourceEntries : EntryOf(ck).item = r})
                = TargetOf(resource_targets, r)
          /\ \E i \in DOMAIN characters, j \in DOMAIN planet_data :
                /\ Len(work_orders[characters[i].id]) < characters[i].max_visits
                /\ planet_data[j].id \notin characters[i].banned
                /\ r \in ResourceKeys(planet_data[j])
                /\ \A k \in DOMAIN work_orders[characters[i].id] :
                      work_orders[characters[i].id][k].planet # planet_data[j].id

\* C6: a character has at most max_visits work-order entries and at most
\* one entry for a planet
C6_VisitLimits ==
    Returned =>
        \A i \in DOMAIN characters :
            LET orders == work_orders[characters[i].id]
            IN /\ Len(orders) <= characters[i].max_visits
               /\ \A k, m \in DOMAIN orders :
                     orders[k].planet = orders[m].planet => k = m

\* a character has used all of its visits although a further planet that it
\* may visit offers a resource whose target is not reached
C6_Witness ==
    /\ Returned
    /\ \E i \in DOMAIN characters, j \in DOMAIN planet_data :
          LET orders == work_orders[characters[i].id]
          IN /\ characters[i].max_visits >= 1
             /\ Len(orders) = characters[i].max_visits
             /\ planet_data[j].id \notin characters[i].banned
             /\ \A k \in DOMAIN orders : orders[k].planet # planet_data[j].id
             /\ \E r \in ResourceKeys(planet_data[j]) \cap TargetKeys(resource_targets) :
                   InFlow(G, flow_dict, NodeOf(r)) < TargetOf(resource_targets, r)

\* the only character is banned from every planet that offers a demanded resource
OnlyOfferBanned ==
    /\ Len(characters) = 1
    /\ \A j \in DOMAIN planet_data :
          ResourceKeys(planet_data[j]) \cap TargetKeys(resource_targets) # {}
              => planet_data[j].id \in characters[1].banned

\* C7: the network has no edge from a character to a planet it is banned
\* from, no work order names such a planet, and when the only character is
\* banned from the only planet that offers a demanded resource the total
\* yield is 0 and the work order is empty
C7_Banned ==
    /\ pc # "build" =>
          \A i \in DOMAIN characters, j \in DOMAIN planet_data :
              planet_data[j].id \in characters[i].banned
                  => <<NodeOf(characters[i].id), NodeOf(planet_data[j].id)>>
                         \notin EdgeSet(G)
    /\ Returned =>
          \A i \in DOMAIN characters :
              \A k \in DOMAIN work_orders[characters[i].id] :
                  work_orders[characters[i].id][k].planet \notin characters[i].banned
    /\ Returned /\ OnlyOfferBanned =>
          /\ total_abundance = 0
          /\ work_orders[characters[1].id] = <<>>

\* one character with a visit, banned from the one planet, whose Iron is demanded
C7_Witness ==
    /\ Returned
    /\ OnlyOfferBanned
    /\ Len(planet_data) = 1
    /\ characters[1].max_visits >= 1
    /\ characters[1].banned = {planet_data[1].id}
    /\ "Iron" \in ResourceKeys(planet_data[1])
    /\ TargetOf(resource_targets, "Iron") >= 1
    /\ total_abundance = 0
    /\ work_orders[characters[1].id] = <<>>

\* total abundance of the units on the Planet -> Planet|Res edges
FlowYield ==
    SumOver(Offers, [o \in Offers |->
        flow_dict[<<NodeOf(planet_data[o[1]].id), pr_node(planet_data[o[1]].id, o[2])>>]
            * AbundanceOf(planet_data[o[1]], o[2])])

\* one character with one visit, one planet with Iron, two units of Iron demanded
InfeasibleDemandScenario ==
    /\ Len(characters) = 1
    /\ characters[1].max_visits = 1
    /\ characters[1].banned = {}
    /\ Len(planet_data) = 1
    /\ ResourceKeys(planet_data[1]) = {"Iron"}
    /\ TargetKeys(resource_targets) = {"Iron"}
    /\ TargetOf(resource_targets, "Iron") = 2

\* C8: when the maximum flow is less than the sum of the targets,
\* solve_mission returns the partial assignment of the flow, not the error
\* result; in the scenario the total yield is the abundance of the one unit
C8_PartialResult ==
    /\ pc = "done" /\ maxFlow < SumTargets =>
          /\ outcome = "ok"
          /\ FlowValue(G, flow_dict) = maxFlow
          /\ total_abundance = FlowYield
          /\ DOMAIN work_orders = CharacterIds(characters)
          /\ Cardinality(ResourceEntries) = maxFlow
    /\ pc = "done" /\ InfeasibleDemandScenario =>
          /\ outcome = "ok"
          /\ total_abundance = AbundanceOf(planet_data[1], "Iron")
          /\ Len(work_orders[characters[1].id]) = 1

\* the scenario has returned its one unit
C8_Witness ==
    /\ pc = "done"
    /\ InfeasibleDemandScenario
    /\ maxFlow = 1
    /\ maxFlow < SumTargets
    /\ outcome = "ok"
    /\ total_abundance = 3

\* C10: the total yield equals the sum of abundance(planet, resource) over
\* the work-order entries that carry a resource
C10_YieldAccounting ==
    Returned =>
        /\ total_abundance =
              SumOver(ResourceEntries, [ck \in ResourceEntries |->
                  AbundanceOf(PlanetOf(EntryOf(ck).planet), EntryOf(ck).item)])
        /\ \A ck \in ResourceEntries :
              EntryOf(ck).yield
                  = AbundanceOf(PlanetOf(EntryOf(ck).planet), EntryOf(ck).item)

\* two characters collect different resources of different abundance at one
\* planet, one of them keeping its resource
C10_Witness ==
    /\ Returned
    /\ \E ck, dm \in ResourceEntries :
          /\ ck[1] # dm[1]
          /\ EntryOf(ck).planet = EntryOf(dm).planet
          /\ EntryOf(ck).yield # EntryOf(dm).yield
          /\ EntryOf(ck).tag = ""
    /\ total_abundance =
          SumOver(ResourceEntries, [ck \in ResourceEntries |-> EntryOf(ck).yield])

\* ------------------------------------------------------------------------
\* Inputs that break the data model: an identity given twice, a negative
\* quantity, a current assignment of an unknown character or planet
RawCharacterLists ==
    {<<[id |-> "a1", max_visits |-> v, banned |-> {}]>> : v \in {-1, 1}}
    \cup {<<[id |-> "a1", max_visits |-> v, banned |-> {}],
            [id |-> c, max_visits |-> w, banned |-> {}]>> :
             v \in {-1, 1}, w \in {1, 2}, c \in {"a1", "a2"}}

RawPlanetLists ==
    LET first == {<<Iron(3)>>, <<Iron(-1), Gold(1)>>}
        second == {<<Iron(1)>>, <<Gold(3), Iron(2)>>}
    IN {<<[id |-> "l1", resources |-> r]>> : r \in first}
       \cup {<<[id |-> "l1", resources |-> r1], [id |-> p, resources |-> r2]>> :
                r1 \in first, r2 \in second, p \in {"l1", "l2"}}

RawTargetLists ==
    {<<[res |-> "Iron", target |-> t]>> : t \in {-1, 1, 2}}
    \cup {<<[res |-> "Iron", target |-> t], [res |-> "Gold", target |-> 1]>> :
             t \in {-1, 1, 2}}

RawAssignmentMaps ==
    {<<>>} \cup {[c \in {a} |-> [p \in {l} |-> "Iron"]] :
                    a \in {"a1", "a9"}, l \in {"l1", "l9"}}

InitUnvalidated ==
    /\ characters \in RawCharacterLists
    /\ planet_data \in RawPlanetLists
    /\ resource_targets \in RawTargetLists
    /\ current_assignments \in RawAssignmentMaps
    /\ switching_cost \in {0, 2}
    /\ ~ValidInput(characters, resource_targets, planet_data, current_assignments,
                   switching_cost)
    /\ Start

SpecUnvalidated == InitUnvalidated /\ [][Next]_vars

\* C9: an input that breaks the data model is rejected before any node or
\* edge of the network is created, and surfaces as a validation failure; it
\* is never accepted and solved
C9_InvalidRejected ==
    ~ValidInput(characters, resource_targets, planet_data, current_assignments,
                switching_cost)
        => /\ G = EmptyGraph
           /\ outcome \in {"running", "validation failure"}
           /\ pc = "done" => outcome = "validation failure"

\* what the code does instead: an input with an identity given twice is
\* solved like any other
C9_AcceptedAndSolved ==
    /\ pc = "done"
    /\ outcome = "ok"
    /\ \/ \E i, j \in DOMAIN characters : i # j /\ characters[i].id = characters[j].id
       \/ \E i, j \in DOMAIN planet_data : i # j /\ planet_data[i].id = planet_data[j].id
    /\ total_abundance > 0

\* ------------------------------------------------------------------------
\* The matching of visitors and items at a planet

\* the resource that the current assignments record for the character at
\* the planet
PriorAt(c_id, p_id) ==
    LET curr_assigns == CurrentOf(current_assignments, c_id)
    IN IF p_id \in DOMAIN curr_assigns THEN curr_assigns[p_id] ELSE None

\* the characters with positive flow into the planet, by their position in
\* the list of characters
VisitorIndices(p_id) ==
    {i \in DOMAIN characters :
        LET e == <<NodeOf(characters[i].id), NodeOf(p_id)>>
        IN e \in EdgeSet(G) /\ flow_dict[e] > 0}

\* the solved units of the resource at the planet
UnitsAt(p_id, res) ==
    LET e == <<NodeOf(p_id), pr_node(p_id, res)>>
    IN IF e \in EdgeSet(G) THEN flow_dict[e] ELSE 0

\* the positions of the character's work order that name the planet
EntriesAt(c_id, p_id) ==
    {k \in DOMAIN work_orders[c_id] : work_orders[c_id][k].planet = p_id}

ItemsAt(c_id, p_id) ==
    {work_orders[c_id][k].item : k \in EntriesAt(c_id, p_id)}

\* 2 characters, one planet offering Iron, target Iron 2, and only the
\* second character collected Iron there before
StabilityScenario ==
    /\ Len(characters) = 2
    /\ \A i \in DOMAIN characters :
          characters[i].max_visits >= 1 /\ characters[i].banned = {}
    /\ Len(planet_data) = 1
    /\ ResourceKeys(planet_data[1]) = {"Iron"}
    /\ resource_targets = <<[res |-> "Iron", target |-> 2]>>
    /\ DOMAIN current_assignments = {characters[2].id}
    /\ current_assignments[characters[2].id] =
           [p \in {planet_data[1].id} |-> "Iron"]

\* C11: at every planet, taking the visitors in character order, a visitor
\* whose current assignment records resource r there and who finds a unit
\* of r left at its turn is assigned r, and no unit is handed out twice; so
\* the number of visitors that keep r is min(visitors with r recorded there,
\* solved units of r there).  In the 2-character scenario the second
\* character is assigned Iron.
C11_StabilityPass ==
    Returned =>
        /\ \A j \in DOMAIN planet_data : \A res \in ResNames :
              LET p_id == planet_data[j].id
                  visitors == VisitorIndices(p_id)
                  prior == {i \in visitors : PriorAt(characters[i].id, p_id) = res}
                  units == UnitsAt(p_id, res)
                  keep == {i \in prior : res \in ItemsAt(characters[i].id, p_id)}
                  given == {i \in visitors : res \in ItemsAt(characters[i].id, p_id)}
              IN /\ \A i \in prior :
                        Cardinality({h \in prior : h < i}) < units
                            => ItemsAt(characters[i].id, p_id) = {res}
                 /\ Cardinality(keep) = Min(Cardinality(prior), units)
                 /\ Cardinality(given) <= units
        /\ StabilityScenario =>
              /\ VisitorIndices(planet_data[1].id) = {1, 2}
              /\ ItemsAt(characters[2].id, planet_data[1].id) = {"Iron"}
              /\ work_orders[characters[2].id][1].tag = ""

\* two characters visit a planet with one unit of Iron and one of Gold; the
\* second one collected Iron there before and keeps it, the first one, who
\* comes first in the order, gets the Gold
C11_Witness ==
    /\ Returned
    /\ Len(characters) = 2
    /\ LET p_id == planet_data[1].id
       IN /\ VisitorIndices(p_id) = {1, 2}
          /\ PriorAt(characters[1].id, p_id) # "Iron"
          /\ PriorAt(characters[2].id, p_id) = "Iron"
          /\ UnitsAt(p_id, "Iron") = 1
          /\ UnitsAt(p_id, "Gold") = 1
          /\ ItemsAt(characters[2].id, p_id) = {"Iron"}
          /\ ItemsAt(characters[1].id, p_id) = {"Gold"}

\* the 2-character scenario has returned
C11_ScenarioReached == Returned /\ StabilityScenario


\* ------------------------------------------------------------------------
\* The solve step as a function of the graph: every flow that
\* nx.max_flow_min_cost may return for it.  Used to compare the run at hand
\* with the run on the same inputs and another switching_cost.

\* nx.maximum_flow_value: augment until no path is left
RECURSIVE MaximumFlow(_, _)
MaximumFlow(g, f) ==
    LET p == AugmentingPath(g, f)
    IN IF p = <<>> THEN f
       ELSE MaximumFlow(g, Push(g, f, PathArcs(p), Bottleneck(g, f, PathArcs(p))))

\* the flows one pivot away from f
PivotsOf(g, f) ==
    UNION {{Push(g, f, CycleArcs(c), d) : d \in 1..Bottleneck(g, f, CycleArcs(c))} :
              c \in {x \in ResidualCycles(g, f) : ArcsCost(g, CycleArcs(x)) <= 0}}

\* the flows that pivots reach
RECURSIVE PivotClosure(_, _, _)
PivotClosure(g, seen, frontier) ==
    IF frontier = {} THEN seen
    ELSE LET new == UNION {PivotsOf(g, f) : f \in frontier} \ seen
         IN PivotClosure(g, seen \cup new, new)

\* nx.min_cost_flow: the reached flows that no cycle makes cheaper
MinCostFlows(g) ==
    LET f0 == MaximumFlow(g, ZeroFlow(g))
    IN {f \in PivotClosure(g, {f0}, {f0}) : NegativeCycles(g, f) = {}}

\* entries of the work orders whose (character, planet) pair the current
\* assignments contain
MatchedPairs(orders) ==
    SumOver(DOMAIN orders,
        [c \in DOMAIN orders |->
            Cardinality({k \in DOMAIN orders[c] :
                orders[c][k].planet \in DOMAIN CurrentOf(current_assignments, c)})])

\* sum of all abundances of the planets
AllAbundance ==
    SumOver(DOMAIN planet_data,
        [j \in DOMAIN planet_data |->
            SumOver(DOMAIN planet_data[j].resources,
                [k \in DOMAIN planet_data[j].resources |->
                    planet_data[j].resources[k].abundance])])

\* switching_cost is larger than the sum of all abundances times the flow
VeryLargeCost == switching_cost > AllAbundance * maxFlow

\* the results of the run on the same inputs with switching_cost 0
ResultsAtCostZero ==
    LET g0 == BuildGraph(characters, resource_targets, planet_data,
                         current_assignments, 0)
    IN {GenerateWorkOrders(g0, f, characters, planet_data, current_assignments) :
           f \in MinCostFlows(g0)}

\* C12: with the other inputs fixed, the result of a run with a very large
\* switching_cost has at least as many (character, planet) pairs of the
\* current assignments as any result of the run with switching_cost 0
C12_SwitchingCostEffect ==
    Returned /\ switching_cost > 0 /\ VeryLargeCost =>
        \A r0 \in ResultsAtCostZero :
            MatchedPairs(work_orders) >= MatchedPairs(r0.orders)

\* the run with the very large switching_cost keeps more pairs than a result
\* of the run with switching_cost 0 that has the same total yield
C12_Witness ==
    /\ Returned
    /\ switching_cost > 0
    /\ VeryLargeCost
    /\ AllAbundance * maxFlow > 0
    /\ \E r0 \in ResultsAtCostZero :
          /\ r0.total = total_abundance
          /\ MatchedPairs(r0.orders) < MatchedPairs(work_orders)


\* ------------------------------------------------------------------------
\* The built network

\* an edge with its attributes
EdgeRecord(u, v, cap, w) == [u |-> u, v |-> v, capacity |-> cap, weight |-> w]

\* the edges of G with their attributes
BuiltEdges ==
    {EdgeRecord(e[1], e[2], G.capacity[e], G.weight[e]) : e \in EdgeSet(G)}

\* the edges that the five layers call for, written from the inputs
SourceEdges ==
    {EdgeRecord(source, NodeOf(characters[i].id), characters[i].max_visits, 0) :
        i \in DOMAIN characters}

VisitEdges ==
    {EdgeRecord(NodeOf(characters[p[1]].id), NodeOf(planet_data[p[2]].id), 1,
                IF PriorAt(characters[p[1]].id, planet_data[p[2]].id) # None
                THEN 0 ELSE switching_cost) :
        p \in {q \in (DOMAIN characters) \X (DOMAIN planet_data) :
                  planet_data[q[2]].id \notin characters[q[1]].banned}}

DemandedAt(j) == ResourceKeys(planet_data[j]) \cap TargetKeys(resource_targets)

CollectEdges ==
    UNION {{EdgeRecord(NodeOf(planet_data[j].id), pr_node(planet_data[j].id, r),
                       Len(characters), 0 - AbundanceOf(planet_data[j], r)) :
               r \in DemandedAt(j)} : j \in DOMAIN planet_data}

AggregateEdges ==
    UNION {{EdgeRecord(pr_node(planet_data[j].id, r), NodeOf(r), Len(characters), 0) :
               r \in DemandedAt(j)} : j \in DOMAIN planet_data}

SinkEdges ==
    {EdgeRecord(NodeOf(resource_targets[k].res), sink, resource_targets[k].target, 0) :
        k \in DOMAIN resource_targets}

\* C14: the built network has exactly the edges Source -> character
\* (capacity max_visits, cost 0), character -> planet for the planets not
\* banned (capacity 1, cost 0 if the planet is in the character's current
\* assignments, whatever the resource, else switching_cost), planet ->
\* planet|resource and planet|resource -> resource for the resources of the
\* planet that have a target (capacity number of characters, cost -abundance
\* and 0), resource -> Sink for every target (capacity target, cost 0), and
\* no others
C14_ExactEdges ==
    pc # "build" =>
        /\ BuiltEdges = SourceEdges \cup VisitEdges \cup CollectEdges
                            \cup AggregateEdges \cup SinkEdges
        /\ Len(G.edges) = Cardinality(EdgeSet(G))

\* a network built for a character with Gold recorded at a planet that
\* offers none, a character banned from that planet, and a target for Gold
\* that no planet offers
C14_Witness ==
    /\ pc # "build"
    /\ switching_cost > 0
    /\ \E i \in DOMAIN characters :
          /\ PriorAt(characters[i].id, "l1") = "Gold"
          /\ <<NodeOf(characters[i].id), NodeOf("l1")>> \in EdgeSet(G)
          /\ G.weight[<<NodeOf(characters[i].id), NodeOf("l1")>>] = 0
    /\ \E i \in DOMAIN characters :
          /\ "l1" \in characters[i].banned
          /\ <<NodeOf(characters[i].id), NodeOf("l1")>> \notin EdgeSet(G)
    /\ \A j \in DOMAIN planet_data : "Gold" \notin ResourceKeys(planet_data[j])
    /\ <<NodeOf("Gold"), sink>> \in EdgeSet(G)


\* ------------------------------------------------------------------------
\* The status of the orders

\* the tags of all entries that carry a resource
TagsGiven == {EntryOf(ck).tag : ck \in ResourceEntries}

\* C15: every work-order entry that carries a resource has exactly one
\* status: NEW PLANET when the character has no current assignment at all,
\* PLANET SWITCH when it has some but none at this planet, HEAD SWITCH when
\* it has this planet with another resource, and no tag when it has this
\* planet with this resource
C15_StatusTags ==
    Returned =>
        \A ck \in ResourceEntries :
            LET e == EntryOf(ck)
                curr == CurrentOf(current_assignments, ck[1])
                here == e.planet \in DOMAIN curr
            IN /\ e.tag \in {"NEW PLANET", "PLANET SWITCH", "HEAD SWITCH", ""}
               /\ e.tag = "NEW PLANET" <=> DOMAIN curr = {}
               /\ e.tag = "PLANET SWITCH" <=> DOMAIN curr # {} /\ ~here
               /\ e.tag = "HEAD SWITCH" <=> here /\ curr[e.planet] # e.item
               /\ e.tag = "" <=> here /\ curr[e.planet] = e.item

\* a result with an unchanged entry, a resource switch at the same planet and
\* a planet switch
C15_Witness ==
    /\ Returned
    /\ {"", "HEAD SWITCH", "PLANET SWITCH"} \subseteq TagsGiven

\* a result with an entry of a character without current assignments
C15_NewPlanetReached ==
    /\ Returned
    /\ {"NEW PLANET", "HEAD SWITCH"} \subseteq TagsGiven


\* ------------------------------------------------------------------------
\* Visitors and units

\* all entries of the work orders, as <<character, index>>
AllEntries == UNION {{c} \X DOMAIN work_orders[c] : c \in DOMAIN work_orders}

\* the units solved at the planet, over all resources
UnitsOf(p_id) ==
    Len(ItemsToCollect(flow_dict, PlanetOutEdges(G, p_id), 1))

\* C17: for inputs with distinct character, planet and resource names, at
\* every planet the number of visitors equals the number of units expanded
\* from the planet's flows; every visitor gets one entry with a resource,
\* every unit of a resource goes to a visitor, and no order says
\* No Collection
C17_VisitorsMatchUnits ==
    Returned =>
        /\ \A j \in DOMAIN planet_data :
              LET p_id == planet_data[j].id
                  visitors == VisitorIndices(p_id)
              IN /\ Cardinality(visitors) = UnitsOf(p_id)
                 /\ UnitsOf(p_id) =
                       SumOver(ResNames, [r \in ResNames |-> UnitsAt(p_id, r)])
                 /\ \A i \in DOMAIN characters :
                       Cardinality(EntriesAt(characters[i].id, p_id))
                           = (IF i \in visitors THEN 1 ELSE 0)
                 /\ \A r \in ResNames :
                       Cardinality({i \in visitors :
                                       r \in ItemsAt(characters[i].id, p_id)})
                           = UnitsAt(p_id, r)
        /\ \A ck \in AllEntries : EntryOf(ck).item # "No Collection"

\* a planet with two visitors and two units, one handed out by the greedy
\* match and one by the fill of the remaining visitors
C17_Witness ==
    /\ Returned
    /\ \E j \in DOMAIN planet_data :
          LET p_id == planet_data[j].id
          IN /\ Cardinality(VisitorIndices(p_id)) = 2
             /\ UnitsOf(p_id) = 2
             /\ \E i, h \in VisitorIndices(p_id) :
                   /\ PriorAt(characters[i].id, p_id) \in ItemsAt(characters[i].id, p_id)
                   /\ PriorAt(characters[h].id, p_id) \notin ItemsAt(characters[h].id, p_id)


====
